---- MODULE Spec2Model ----
(***************************************************************************)
(* A model of the Playwright page-object test framework: the Element       *)
(* Action Layer (pages/base_page.py), the Login and Products page objects, *)
(* the step layer (steps/*.py), the logger and the pytest scenarios with   *)
(* their page fixture.  Strings are sequences of one-character strings so  *)
(* that lower(), substring and glob matching are computed, not assumed.    *)
(* Every operation of the code is an operator from a world record (page,   *)
(* trace of driver calls, log, pending exception, return value) to a world *)
(* record; Python's statement sequencing is written out as                 *)
(* IF Raised(w1) THEN w1 ELSE ... so that exception propagation is part of *)
(* each definition.                                                        *)
(***************************************************************************)
EXTENDS Integers, Sequences, FiniteSets, TLC

VARIABLES
  site,    \* the storefront under test: landing URL, catalog, label, search mode
  opts,    \* pytest command-line options: url, email, password
  page,    \* the browser page: url, form fields, focus, rendered cards, label, closed
  test,    \* which scenario (or API call) is running
  pc,      \* position inside the scenario
  outcome, \* "running", "passed", "failed" (AssertionError) or "error" (other exception)
  op,      \* the most recent operation called: name, locator, argument, timeout
  trace,   \* driver calls issued by the most recent operation, in order
  raised,  \* driver failures during the most recent operation, in order
  log,     \* log records written so far, in order
  err,     \* the exception that ended the most recent operation, or None
  ret,     \* the value returned by the most recent operation
  loggers, \* Logger._loggers: the registry, from name to logger instance
  handlers,\* the handlers attached to the logging module's logger of each name
  written  \* how many times each sink received the most recent message

vars == <<site, opts, page, test, pc, outcome, op, trace, raised, log, err, ret,
          loggers, handlers, written>>

(***************************************************************************)
(* Bounds of the model.                                                    *)
(***************************************************************************)
MaxResults == 2      \* most product cards of a free-standing result set
MaxFaultAt == 8      \* latest driver call of an operation at which a fault is injected

(***************************************************************************)
(* Strings.                                                                *)
(***************************************************************************)
\* str.lower() on one character
LowerChar(c) == IF c = "A" THEN "a" ELSE IF c = "B" THEN "b" ELSE c

\* str.lower()
Lower(s) == [i \in 1..Len(s) |-> LowerChar(s[i])]

\* Python's `sub in s` on strings: sub occurs as a contiguous substring of s
Contains(s, sub) ==
  \E i \in 0..(Len(s) - Len(sub)) :
     \A j \in 1..Len(sub) : s[i + j] = sub[j]

\* s ends with suf
EndsWith(s, suf) ==
  /\ Len(suf) <= Len(s)
  /\ \A j \in 1..Len(suf) : s[Len(s) - Len(suf) + j] = suf[j]

\* product names and keywords the free-standing checks draw from
Names == {<<>>, <<"a">>, <<"A">>, <<"b">>, <<"A","b">>, <<"b","A">>}
Keywords == {<<>>, <<"a">>, <<"A">>, <<"B">>, <<"a","b">>, <<"A","B">>}
ResultSets == UNION {[1..k -> Names] : k \in 0..MaxResults}

(***************************************************************************)
(* URLs.                                                                   *)
(***************************************************************************)
\* "/dashboard/dash": the substring verify_login_success looks for, and the
\* tail of the glob "**/dashboard/dash" wait_for_login_success waits for
DashboardMarker ==
  <<"/","d","a","s","h","b","o","a","r","d","/","d","a","s","h">>

\* origin and hash prefix of the storefront (".../client/#"), abbreviated
ClientBase == <<"h",":","/","/","r","/","c","/","#">>
\* the default of --url, abbreviated
GoogleUrl == <<"h",":","/","/","g">>
LoginUrl == ClientBase \o <<"/","a","u","t","h","/","l","o","g","i","n">>
DashUrl == ClientBase \o DashboardMarker
\* dashboard URLs that contain the marker without ending with it
DashQueryUrl == DashUrl \o <<"?","r">>
DashSubUrl == DashUrl \o <<"b","o","a","r","d">>
\* a dashboard URL without the marker
OrdersUrl == ClientBase \o <<"/","d","a","s","h","b","o","a","r","d","/","m","y","o","r","d","e","r","s">>

Urls == {GoogleUrl, LoginUrl, DashUrl, DashQueryUrl, DashSubUrl, OrdersUrl}

(***************************************************************************)
(* Values shared by all layers.                                            *)
(***************************************************************************)
\* Python's None for Optional[...] values is the empty tuple, Some(v) is <<v>>
None == <<>>
Some(v) == <<v>>

\* the exceptions the Playwright driver raises (all subclasses of Exception)
DriverErrors == {"TimeoutError", "Error", "TargetClosedError"}

\* locators: a selector string, or an already resolved Locator object
Str(sel) == [kind |-> "str", sel |-> sel]
Handle(sel) == [kind |-> "handle", sel |-> sel]

\* return values, tagged by their Python type
RetNone == [t |-> "none", v |-> None]
RetBool(b) == [t |-> "bool", v |-> b]
RetInt(n) == [t |-> "int", v |-> n]
RetStr(s) == [t |-> "str", v |-> s]
RetList(l) == [t |-> "list", v |-> l]

NoFault == [at |-> 0, kind |-> "Error"]

\* an operation ended by raising
Raised(w) == w.err # None

Raise(w, e) == [w EXCEPT !.err = Some(e), !.ret = RetNone]
Return(w, r) == [w EXCEPT !.ret = r]

(***************************************************************************)
(* utils/logger.py: the records written through a logger.                  *)
(***************************************************************************)
LogRecord(lvl, name, kind, status, msg) ==
  [lvl |-> lvl, name |-> name, kind |-> kind, status |-> status, msg |-> msg]

\* logger.info / logger.debug / logger.warning / logger.error
Info(w, name, msg) == [w EXCEPT !.log = Append(@, LogRecord("INFO", name, "line", "", msg))]
Debug(w, name, msg) == [w EXCEPT !.log = Append(@, LogRecord("DEBUG", name, "line", "", msg))]
Warning(w, name, msg) == [w EXCEPT !.log = Append(@, LogRecord("WARNING", name, "line", "", msg))]
ErrorLog(w, name, msg) == [w EXCEPT !.log = Append(@, LogRecord("ERROR", name, "line", "", msg))]

\* Logger.log_step: a rule, the STEP line, a rule
log_step(w, name, msg) ==
  [w EXCEPT !.log = @ \o << LogRecord("INFO", name, "rule", "", "="),
                            LogRecord("INFO", name, "step", "", msg),
                            LogRecord("INFO", name, "rule", "", "=") >>]

\* a faulty variant of log_assertion: the status test is inverted
log_assertion_inverted(w, name, msg, result) ==
  LET status == IF result THEN "FAILED" ELSE "PASSED"
      lvl == IF result THEN "ERROR" ELSE "INFO"
  IN [w EXCEPT !.log = Append(@, LogRecord(lvl, name, "assertion", status, msg))]

\* Logger.log_assertion: "ASSERTION [PASSED]" at INFO, "ASSERTION [FAILED]" at ERROR
log_assertion(w, name, msg, result) ==
  LET status == IF result THEN "PASSED" ELSE "FAILED"
      lvl == IF result THEN "INFO" ELSE "ERROR"
  IN [w EXCEPT !.log = Append(@, LogRecord(lvl, name, "assertion", status, msg))]

(***************************************************************************)
(* The browser driver and the storefront behind it (the external           *)
(* Playwright API the code calls).  Every call is appended to the trace;   *)
(* w.fault makes the at-th call of the operation fail with a driver error. *)
(***************************************************************************)
\* the storefront's account (the defaults of --email / --password)
AccountEmail == "atulmysuru@gmail.com"
AccountPassword == "India123#"

PageKind(url) ==
  IF url = LoginUrl THEN "login"
  ELSE IF url \in {DashUrl, DashQueryUrl, DashSubUrl} THEN "dashboard"
  ELSE "other"

LoginSelectors == {"email_input", "password_input", "login_button",
                   "forgot_password_link", "register_link"}
DashSelectors == {"search_input", "signout_button", "home_button"}

\* elements matching a selector on the page
Present(p, sel) ==
  \/ sel \in LoginSelectors /\ PageKind(p.url) = "login"
  \/ sel \in DashSelectors /\ PageKind(p.url) = "dashboard"
  \/ sel = "results_count" /\ PageKind(p.url) = "dashboard" /\ p.label # None
  \/ sel = "product_names" /\ Len(p.names) > 0
  \/ sel = "product_cards" /\ Len(p.names) > 0

\* the label the storefront shows above a result set ("Showing N results |")
LabelFor(names) ==
  IF site.label = "exact" THEN Some(Len(names))
  ELSE IF site.label = "off" THEN Some(Len(names) + 1)
  ELSE None

\* what the storefront renders at a URL
Render(url) ==
  [url |-> url, email |-> "", password |-> "", focus |-> "", query |-> <<>>,
   names |-> IF PageKind(url) = "dashboard" THEN site.catalog ELSE <<>>,
   label |-> IF PageKind(url) = "dashboard" THEN LabelFor(site.catalog) ELSE None,
   closed |-> FALSE]

\* the storefront's product filter for a query
SearchResult(p, q) ==
  IF site.search = "filter"
  THEN SelectSeq(site.catalog, LAMBDA n : Contains(Lower(n), Lower(q)))
  ELSE IF site.search = "all" THEN site.catalog
  ELSE <<>>

Call(verb, sel, arg, timeout) ==
  [verb |-> verb, sel |-> sel, arg |-> arg, timeout |-> timeout]

Faulty(w) == w.fault.at = Len(w.trace) + 1

Issued(w, call) == [w EXCEPT !.trace = Append(@, call)]

\* a driver call that raises: the failure is also noted in w.raised with its
\* position in the trace and whether it was the injected fault
DrvRaise(w, c, e) ==
  [w EXCEPT !.trace = Append(@, c), !.err = Some(e), !.ret = RetNone,
            !.raised = Append(@, [at |-> Len(w.trace) + 1, kind |-> e,
                                  injected |-> Faulty(w)])]

\* the outcome every driver call shares: the injected fault, or a closed page
DrvFailure(w) ==
  IF Faulty(w) THEN Some(w.fault.kind)
  ELSE IF w.page.closed THEN Some("TargetClosedError")
  ELSE None

\* page.locator(selector): builds a Locator, touches no element
DrvLocator(w, sel) ==
  LET c == Call("locator", sel, None, None) IN
  IF Faulty(w) THEN DrvRaise(w, c, w.fault.kind) ELSE Issued(w, c)

\* an action on an element: waits up to the timeout for the element
DrvAct(w, c, newPage) ==
  LET f == DrvFailure(w) IN
  IF f # None THEN DrvRaise(w, c, f[1])
  ELSE IF ~Present(w.page, c.sel) THEN DrvRaise(w, c, "TimeoutError")
  ELSE [Issued(w, c) EXCEPT !.page = newPage]

\* the storefront's reaction to a click
ClickEffect(p, sel) ==
  IF sel = "login_button"
  THEN IF p.email = AccountEmail /\ p.password = AccountPassword
       THEN Render(site.landing)
       ELSE [p EXCEPT !.focus = sel]
  ELSE IF sel = "signout_button" THEN Render(LoginUrl)
  ELSE [p EXCEPT !.focus = sel]

\* the page after text was filled into an input
FillEffect(p, sel, text) ==
  IF sel = "email_input" THEN [p EXCEPT !.email = text, !.focus = sel]
  ELSE IF sel = "password_input" THEN [p EXCEPT !.password = text, !.focus = sel]
  ELSE IF sel = "search_input" THEN [p EXCEPT !.query = text, !.focus = sel]
  ELSE p

\* the page after a key press: Enter in the search box runs the search
KeyEffect(p, key) ==
  IF key = "Enter" /\ p.focus = "search_input" /\ PageKind(p.url) = "dashboard"
  THEN LET r == SearchResult(p, p.query)
       IN [p EXCEPT !.names = r, !.label = LabelFor(r)]
  ELSE p

\* node.textContent of the first element matching a selector
TextOf(p, sel) ==
  IF sel = "results_count" THEN <<"Showing", p.label[1], "results">>
  ELSE IF sel = "product_names" THEN p.names[1]
  ELSE <<>>

\* page.goto(url)
DrvGoto(w, url) ==
  LET c == Call("goto", "", url, None)
      f == DrvFailure(w) IN
  IF f # None THEN DrvRaise(w, c, f[1])
  ELSE [Issued(w, c) EXCEPT !.page = Render(url)]

\* locator.click(timeout=t)
DrvClick(w, sel, t) ==
  DrvAct(w, Call("click", sel, None, Some(t)), ClickEffect(w.page, sel))

\* locator.fill(text, timeout=t)
DrvFill(w, sel, text, t) ==
  DrvAct(w, Call("fill", sel, text, Some(t)), FillEffect(w.page, sel, text))

\* any other locator action that takes a timeout (dblclick, type, clear, ...)
DrvOther(w, verb, sel, arg, t) ==
  DrvAct(w, Call(verb, sel, arg, t), w.page)

\* page.keyboard.press(key)
DrvPress(w, key) ==
  LET c == Call("press", "", key, None)
      f == DrvFailure(w) IN
  IF f # None THEN DrvRaise(w, c, f[1])
  ELSE [Issued(w, c) EXCEPT !.page = KeyEffect(w.page, key)]

\* page.wait_for_load_state(state, timeout=t)
DrvWaitForLoadState(w, state, t) ==
  LET c == Call("wait_for_load_state", "", state, Some(t))
      f == DrvFailure(w) IN
  IF f # None THEN DrvRaise(w, c, f[1]) ELSE Issued(w, c)

\* Playwright's URL glob "**" \o tail: anchored, so the URL must end with tail
GlobMatch(url, tail) == EndsWith(url, tail)

\* page.wait_for_url("**" \o tail, timeout=t): returns once the URL matches,
\* raises TimeoutError when it does not match within t
DrvWaitForUrl(w, tail, t) ==
  LET c == Call("wait_for_url", "", tail, Some(t))
      f == DrvFailure(w) IN
  IF f # None THEN DrvRaise(w, c, f[1])
  ELSE IF ~GlobMatch(w.page.url, tail) THEN DrvRaise(w, c, "TimeoutError")
  ELSE Issued(w, c)

\* locator.text_content(timeout=t): Optional[str], waits for the element
DrvTextContent(w, sel, t) ==
  LET c == Call("text_content", sel, None, t)
      f == DrvFailure(w) IN
  IF f # None THEN DrvRaise(w, c, f[1])
  ELSE IF ~Present(w.page, sel) THEN DrvRaise(w, c, "TimeoutError")
  ELSE Return(Issued(w, c), Some(TextOf(w.page, sel)))

\* locator.is_visible(timeout=t): answers at once, false for no element
DrvIsVisible(w, sel, t) ==
  LET c == Call("is_visible", sel, None, Some(t))
      f == DrvFailure(w) IN
  IF f # None THEN DrvRaise(w, c, f[1])
  ELSE Return(Issued(w, c), Present(w.page, sel))

\* locator.is_enabled(timeout=t): waits for the element
DrvIsEnabled(w, sel, t) ==
  LET c == Call("is_enabled", sel, None, Some(t))
      f == DrvFailure(w) IN
  IF f # None THEN DrvRaise(w, c, f[1])
  ELSE IF ~Present(w.page, sel) THEN DrvRaise(w, c, "TimeoutError")
  ELSE Return(Issued(w, c), TRUE)

\* locator.is_checked(): waits for the element, which must be a checkbox or
\* radio button (the pages define none)
DrvIsChecked(w, sel) ==
  LET c == Call("is_checked", sel, None, None)
      f == DrvFailure(w) IN
  IF f # None THEN DrvRaise(w, c, f[1])
  ELSE IF ~Present(w.page, sel) THEN DrvRaise(w, c, "TimeoutError")
  ELSE DrvRaise(w, c, "Error")

\* page.locator(selector).all(): the elements matching now, without waiting
DrvAll(w, sel) ==
  LET c == Call("all", sel, None, None)
      f == DrvFailure(w) IN
  IF f # None THEN DrvRaise(w, c, f[1])
  ELSE Return(Issued(w, c),
              IF sel \in {"product_names", "product_cards"}
              THEN [i \in 1..Len(w.page.names) |-> i]
              ELSE IF Present(w.page, sel) THEN <<1>> ELSE <<>>)

\* element.text_content() of the i-th product title, driver default timeout
DrvNthTextContent(w, sel, i) ==
  LET c == Call("text_content", sel, i, None)
      f == DrvFailure(w) IN
  IF f # None THEN DrvRaise(w, c, f[1])
  ELSE IF i > Len(w.page.names) THEN DrvRaise(w, c, "TimeoutError")
  ELSE Return(Issued(w, c), Some(w.page.names[i]))

\* expect(locator).to_be_visible(): AssertionError when not visible in time
DrvExpectVisible(w, sel) ==
  LET c == Call("expect_visible", sel, None, None)
      f == DrvFailure(w) IN
  IF f # None THEN DrvRaise(w, c, f[1])
  ELSE IF ~Present(w.page, sel) THEN DrvRaise(w, c, "AssertionError")
  ELSE Issued(w, c)
(***************************************************************************)
(* Python statement sequencing.                                            *)
(***************************************************************************)
\* `first; rest`: rest runs on the world first leaves behind, unless first
\* raised, in which case the exception propagates and rest does not run
Then(w, rest(_)) == IF Raised(w) THEN w ELSE rest(w)

\* `try: body  except Exception: return False`
ExceptReturnFalse(w) ==
  IF Raised(w) THEN [w EXCEPT !.err = None, !.ret = RetBool(FALSE)] ELSE w

(***************************************************************************)
(* pages/base_page.py: the Element Action Layer.  `self` is the name of    *)
(* the page class, which is also the name of its logger.                   *)
(***************************************************************************)
\* self.timeout
DefaultTimeout == 30000

\* a faulty variant of TimeoutOr: only None falls back to the default
TimeoutOrNoneOnly(timeout) ==
  IF timeout = None THEN DefaultTimeout ELSE timeout[1]

\* `timeout or self.timeout`: None and 0 are both falsy in Python
TimeoutOr(timeout) ==
  IF timeout = None \/ timeout = Some(0) THEN DefaultTimeout ELSE timeout[1]

\* BasePage._get_element: a string is resolved, a Locator is used as it is
get_element(w, locator) ==
  IF locator.kind = "str" THEN DrvLocator(w, locator.sel) ELSE w

\* BasePage.navigate
navigate(w, self, url) ==
  Then(DrvGoto(Info(w, self, "Navigating to URL"), url),
       LAMBDA w1 : Return(Info(w1, self, "Successfully navigated to"), RetNone))

\* BasePage.click
click(w, self, locator, timeout) ==
  Then(get_element(w, locator), LAMBDA w1 :
  Then(DrvClick(Info(w1, self, "Clicking on element"), locator.sel, TimeoutOr(timeout)),
       LAMBDA w2 : Return(Debug(w2, self, "Clicked on element"), RetNone)))

\* BasePage.fill
fill(w, self, locator, text, timeout) ==
  Then(get_element(w, locator), LAMBDA w1 :
  Then(DrvFill(Info(w1, self, "Filling text into element"), locator.sel, text,
               TimeoutOr(timeout)),
       LAMBDA w2 : Return(Debug(w2, self, "Filled text into element"), RetNone)))

\* the body shared by double_click, type_text, clear, select_option, check,
\* uncheck and hover: default the timeout, resolve, log, act
timed_action(w, self, verb, locator, arg, timeout, msg) ==
  Then(get_element(w, locator), LAMBDA w1 :
  Then(DrvOther(Info(w1, self, msg), verb, locator.sel, arg, Some(TimeoutOr(timeout))),
       LAMBDA w2 : Return(w2, RetNone)))

\* BasePage.double_click
double_click(w, self, locator, timeout) ==
  timed_action(w, self, "dblclick", locator, None, timeout, "Double clicking on element")

\* BasePage.type_text
type_text(w, self, locator, text, timeout) ==
  timed_action(w, self, "type", locator, text, timeout, "Typing text into element")

\* BasePage.clear
clear(w, self, locator, timeout) ==
  timed_action(w, self, "clear", locator, None, timeout, "Clearing element")

\* BasePage.select_option
select_option(w, self, locator, value, timeout) ==
  timed_action(w, self, "select_option", locator, value, timeout,
               "Selecting option from dropdown")

\* BasePage.check
check(w, self, locator, timeout) ==
  timed_action(w, self, "check", locator, None, timeout, "Checking checkbox")

\* BasePage.uncheck
uncheck(w, self, locator, timeout) ==
  timed_action(w, self, "uncheck", locator, None, timeout, "Unchecking checkbox")

\* BasePage.hover
hover(w, self, locator, timeout) ==
  timed_action(w, self, "hover", locator, None, timeout, "Hovering over element")

\* BasePage.press_key: no locator and no timeout parameter
press_key(w, self, key) ==
  Then(DrvPress(Info(w, self, "Pressing key"), key), LAMBDA w1 : Return(w1, RetNone))

\* `text or ""` on the Optional[str] text_content returned
TextOrEmpty(text) == IF text = None \/ text = Some(<<>>) THEN <<>> ELSE text[1]

\* BasePage.get_text
get_text(w, self, locator, timeout) ==
  Then(get_element(w, locator), LAMBDA w1 :
  Then(DrvTextContent(w1, locator.sel, Some(TimeoutOr(timeout))),
       LAMBDA w2 : Return(Debug(w2, self, "Retrieved text from element"),
                          RetStr(TextOrEmpty(w2.ret)))))

\* BasePage.get_attribute (the pages' elements carry no attribute of interest)
get_attribute(w, self, locator, attribute, timeout) ==
  Then(get_element(w, locator), LAMBDA w1 :
  Then(DrvOther(w1, "get_attribute", locator.sel, attribute, Some(TimeoutOr(timeout))),
       LAMBDA w2 : Return(Debug(w2, self, "Retrieved attribute from element"),
                          [t |-> "optional", v |-> None])))

\* a faulty variant of is_visible: the query without its try block
is_visible_unguarded(w, self, locator, timeout) ==
  Then(get_element(w, locator), LAMBDA w1 :
  Then(DrvIsVisible(w1, locator.sel, TimeoutOr(timeout)),
       LAMBDA w2 : Return(w2, RetBool(w2.ret))))

\* BasePage.is_visible: the try block covers the resolution and the query,
\* `except Exception` turns every driver error into False
is_visible(w, self, locator, timeout) ==
  ExceptReturnFalse(
    Then(get_element(w, locator), LAMBDA w1 :
    Then(DrvIsVisible(w1, locator.sel, TimeoutOr(timeout)),
         LAMBDA w2 : Return(w2, RetBool(w2.ret)))))

\* a faulty variant of is_enabled: the query wrapped in is_visible's try block
is_enabled_guarded(w, self, locator, timeout) ==
  ExceptReturnFalse(
    Then(get_element(w, locator), LAMBDA w1 :
    Then(DrvIsEnabled(w1, locator.sel, TimeoutOr(timeout)),
         LAMBDA w2 : Return(w2, RetBool(w2.ret)))))

\* BasePage.is_enabled: no try block
is_enabled(w, self, locator, timeout) ==
  Then(get_element(w, locator), LAMBDA w1 :
  Then(DrvIsEnabled(w1, locator.sel, TimeoutOr(timeout)),
       LAMBDA w2 : Return(w2, RetBool(w2.ret))))

\* BasePage.is_checked: no timeout parameter, no try block
is_checked(w, self, locator) ==
  Then(get_element(w, locator), LAMBDA w1 :
  Then(DrvIsChecked(w1, locator.sel),
       LAMBDA w2 : Return(w2, RetBool(w2.ret))))

\* BasePage.wait_for_selector
wait_for_selector(w, self, sel, state, timeout) ==
  Then(DrvOther(Info(w, self, "Waiting for selector"), "wait_for_selector", sel, state,
                Some(TimeoutOr(timeout))),
       LAMBDA w1 : Return(w1, RetNone))

\* BasePage.wait_for_url
wait_for_url(w, self, tail, timeout) ==
  Then(DrvWaitForUrl(Info(w, self, "Waiting for URL to match"), tail, TimeoutOr(timeout)),
       LAMBDA w1 : Return(w1, RetNone))

\* BasePage.wait_for_load_state
wait_for_load_state(w, self, state, timeout) ==
  Then(DrvWaitForLoadState(Info(w, self, "Waiting for load state"), state,
                           TimeoutOr(timeout)),
       LAMBDA w1 : Return(w1, RetNone))

\* BasePage.get_current_url: reads page.url, no driver round trip
get_current_url(w, self) ==
  Return(Debug(w, self, "Current URL"), RetStr(w.page.url))

\* BasePage.get_elements
get_elements(w, self, sel) ==
  Then(DrvLocator(w, sel), LAMBDA w1 :
  Then(DrvAll(w1, sel),
       LAMBDA w2 : Return(Debug(w2, self, "Found elements for locator"), RetList(w2.ret))))

\* BasePage.scroll_to_element: no timeout parameter
scroll_to_element(w, self, locator) ==
  Then(get_element(w, locator), LAMBDA w1 :
  Then(DrvOther(Info(w1, self, "Scrolling to element"), "scroll_into_view_if_needed",
                locator.sel, None, None),
       LAMBDA w2 : Return(w2, RetNone)))

\* `except AssertionError as e: log_assertion(..., False); raise e`
ExceptAssertionError(w, self, msg) ==
  IF w.err = Some("AssertionError") THEN log_assertion(w, self, msg, FALSE) ELSE w

\* BasePage.assert_element_visible: an AssertionError is logged as
\* ASSERTION [FAILED] and raised again; any other exception passes through
assert_element_visible(w, self, locator) ==
  Then(get_element(w, locator), LAMBDA w1 :
    ExceptAssertionError(
      Then(DrvExpectVisible(Info(w1, self, "Asserting"), locator.sel),
           LAMBDA w2 : Return(log_assertion(w2, self, "Element should be visible", TRUE),
                              RetNone)),
      self, "Element should be visible"))

(***************************************************************************)
(* pages/login_page.py                                                     *)
(***************************************************************************)
\* LoginPage.enter_email
enter_email(w, email) ==
  fill(Info(w, "LoginPage", "Entering email"), "LoginPage", Str("email_input"), email, None)

\* LoginPage.enter_password
enter_password(w, password) ==
  fill(Info(w, "LoginPage", "Entering password"), "LoginPage", Str("password_input"),
       password, None)

\* a faulty variant of click_login_button: no wait for the navigation
click_login_button_without_wait(w) ==
  click(Info(w, "LoginPage", "Clicking login button"), "LoginPage",
        Str("login_button"), None)

\* LoginPage.click_login_button: click, then wait for the network to go idle
click_login_button(w) ==
  Then(click(Info(w, "LoginPage", "Clicking login button"), "LoginPage",
             Str("login_button"), None),
       LAMBDA w1 : wait_for_load_state(w1, "LoginPage", "networkidle", None))

\* a faulty variant of login: a failed email entry is caught and the login goes on
login_continuing(w, email, password) ==
  Then([enter_email(Info(w, "LoginPage", "Performing login with email"), email)
          EXCEPT !.err = None],
       LAMBDA w1 :
  Then(enter_password(w1, password),
       LAMBDA w2 : click_login_button(w2)))

\* a faulty variant of login: the form is submitted before it is filled
login_submitting_first(w, email, password) ==
  Then(click_login_button(Info(w, "LoginPage", "Performing login with email")),
       LAMBDA w1 :
  Then(enter_email(w1, email),
       LAMBDA w2 : enter_password(w2, password)))

\* LoginPage.login
login(w, email, password) ==
  Then(enter_email(Info(w, "LoginPage", "Performing login with email"), email),
       LAMBDA w1 :
  Then(enter_password(w1, password),
       LAMBDA w2 : click_login_button(w2)))

\* a faulty variant of wait_for_login_success: the timeout is caught and dropped
wait_for_login_success_swallowing(w, timeout) ==
  Return([DrvWaitForUrl(Info(w, "LoginPage", "Waiting for successful login"),
                        DashboardMarker, TimeoutOr(timeout)) EXCEPT !.err = None],
         RetNone)

\* a faulty variant of wait_for_login_success: waits for a URL that contains the marker
wait_for_login_success_substring(w, timeout) ==
  LET w0 == Info(w, "LoginPage", "Waiting for successful login")
      c == Call("wait_for_url", "", DashboardMarker, Some(TimeoutOr(timeout)))
      f == DrvFailure(w0) IN
  IF f # None THEN DrvRaise(w0, c, f[1])
  ELSE IF ~Contains(w0.page.url, DashboardMarker) THEN DrvRaise(w0, c, "TimeoutError")
  ELSE Return(Info(Issued(w0, c), "LoginPage", "Successfully navigated to dashboard"),
              RetNone)

\* LoginPage.wait_for_login_success: page.wait_for_url("**/dashboard/dash")
wait_for_login_success(w, timeout) ==
  Then(DrvWaitForUrl(Info(w, "LoginPage", "Waiting for successful login"),
                     DashboardMarker, TimeoutOr(timeout)),
       LAMBDA w1 : Return(Info(w1, "LoginPage", "Successfully navigated to dashboard"),
                          RetNone))

\* LoginPage.is_on_login_page: `and` evaluates its right side only when the
\* left side is true
is_on_login_page(w) ==
  Then(is_visible(w, "LoginPage", Str("login_button"), None), LAMBDA w1 :
       IF ~w1.ret.v THEN w1
       ELSE is_visible(w1, "LoginPage", Str("email_input"), None))

(***************************************************************************)
(* pages/products_page.py                                                  *)
(***************************************************************************)
\* ProductsPage.click_search_box
click_search_box(w) ==
  click(Info(w, "ProductsPage", "Clicking search box"), "ProductsPage",
        Str("search_input"), None)

\* ProductsPage.enter_search_text
enter_search_text(w, search_text) ==
  fill(Info(w, "ProductsPage", "Entering search text"), "ProductsPage",
       Str("search_input"), search_text, None)

\* a faulty variant of press_enter_in_search: no wait for the results to load
press_enter_without_wait(w) ==
  press_key(Info(w, "ProductsPage", "Pressing Enter to trigger search"),
            "ProductsPage", "Enter")

\* ProductsPage.press_enter_in_search
press_enter_in_search(w) ==
  Then(press_key(Info(w, "ProductsPage", "Pressing Enter to trigger search"),
                 "ProductsPage", "Enter"),
       LAMBDA w1 : wait_for_load_state(w1, "ProductsPage", "networkidle", None))

\* ProductsPage.search_product
search_product(w, product_name) ==
  Then(click_search_box(Info(w, "ProductsPage", "Searching for product")), LAMBDA w1 :
  Then(enter_search_text(w1, product_name), LAMBDA w2 :
  Then(press_enter_in_search(w2),
       LAMBDA w3 : Return(Info(w3, "ProductsPage", "Search completed for"), RetNone))))

\* a faulty variant of TextContents: an empty text is kept as None
RECURSIVE TextContentsOrNone(_, _, _, _, _)
TextContentsOrNone(w, sel, elements, i, acc) ==
  IF i > Len(elements) THEN Return(w, acc)
  ELSE Then(DrvNthTextContent(w, sel, elements[i]),
            LAMBDA w1 : TextContentsOrNone(w1, sel, elements, i + 1,
                          Append(acc, IF w1.ret = Some(<<>>) THEN None ELSE w1.ret)))

\* [element.text_content() for element in product_elements]
RECURSIVE TextContents(_, _, _, _, _)
TextContents(w, sel, elements, i, acc) ==
  IF i > Len(elements) THEN Return(w, acc)
  ELSE Then(DrvNthTextContent(w, sel, elements[i]),
            LAMBDA w1 : TextContents(w1, sel, elements, i + 1, Append(acc, w1.ret)))

\* a faulty variant of get_all_product_names: the search is submitted again
\* before the names are read
get_all_product_names_resubmitting(w) ==
  Then(press_enter_in_search(Info(w, "ProductsPage", "Retrieving all product names")),
       LAMBDA w0 :
  Then(get_elements(w0, "ProductsPage", "product_names"), LAMBDA w1 :
  Then(TextContents(w1, "product_names", w1.ret.v, 1, <<>>),
       LAMBDA w2 : Return(Info(w2, "ProductsPage", "Found products"), RetList(w2.ret)))))

\* ProductsPage.get_all_product_names: one Optional[str] per h5.card-title
get_all_product_names(w) ==
  Then(get_elements(Info(w, "ProductsPage", "Retrieving all product names"),
                    "ProductsPage", "product_names"), LAMBDA w1 :
  Then(TextContents(w1, "product_names", w1.ret.v, 1, <<>>),
       LAMBDA w2 : Return(Info(w2, "ProductsPage", "Found products"), RetList(w2.ret))))

\* a faulty variant of get_product_count: the number is taken from the
\* "Showing N results" label
get_product_count_from_label(w) ==
  Then(get_text(w, "ProductsPage", Str("results_count"), None),
       LAMBDA w1 : Return(Info(w1, "ProductsPage", "Product count"),
                          RetInt(w1.ret.v[2])))

\* ProductsPage.get_product_count: len of the .card-body elements
get_product_count(w) ==
  Then(get_elements(w, "ProductsPage", "product_cards"),
       LAMBDA w1 : Return(Info(w1, "ProductsPage", "Product count"),
                          RetInt(Len(w1.ret.v))))

\* a faulty variant of check_product_names: "all of none" counted as a match
check_product_names_vacuous(w, product_names, keyword) ==
  IF \E i \in 1..Len(product_names) : product_names[i] = None
  THEN Raise(w, "AttributeError")
  ELSE IF SelectSeq(product_names, LAMBDA n : ~Contains(Lower(n[1]), Lower(keyword))) # <<>>
  THEN Return(ErrorLog(w, "ProductsPage", "Products not containing keyword"),
              RetBool(FALSE))
  ELSE Return(Info(w, "ProductsPage", "All products contain keyword"), RetBool(TRUE))

\* the products of a list whose name does not contain the lowered keyword
ProductsWithoutKeyword(product_names, keyword_lower) ==
  SelectSeq(product_names, LAMBDA n : ~Contains(Lower(n[1]), keyword_lower))

\* ProductsPage.verify_all_products_contain, after the names were read:
\* False for no names; product_name.lower() raises AttributeError on None
check_product_names(w, product_names, keyword) ==
  IF product_names = <<>>
  THEN Return(Warning(w, "ProductsPage", "No products found"), RetBool(FALSE))
  ELSE IF \E i \in 1..Len(product_names) : product_names[i] = None
  THEN Raise(w, "AttributeError")
  ELSE IF ProductsWithoutKeyword(product_names, Lower(keyword)) # <<>>
  THEN Return(ErrorLog(w, "ProductsPage", "Products not containing keyword"),
              RetBool(FALSE))
  ELSE Return(Info(w, "ProductsPage", "All products contain keyword"), RetBool(TRUE))

\* ProductsPage.verify_all_products_contain
verify_all_products_contain(w, keyword) ==
  Then(get_all_product_names(
         Info(w, "ProductsPage", "Verifying all products contain keyword")),
       LAMBDA w1 : check_product_names(w1, w1.ret.v, keyword))

\* ProductsPage.get_results_count_text
get_results_count_text(w) ==
  Then(get_text(w, "ProductsPage", Str("results_count"), None),
       LAMBDA w1 : Return(Debug(w1, "ProductsPage", "Results count text"), w1.ret))

\* a faulty variant of is_on_products_page: the search box is clicked to
\* see whether it is there
is_on_products_page_clicking(w) ==
  Then(get_current_url(w, "ProductsPage"), LAMBDA w1 :
       IF ~Contains(w1.ret.v, DashboardMarker) THEN Return(w1, RetBool(FALSE))
       ELSE Then(click(w1, "ProductsPage", Str("search_input"), None),
                 LAMBDA w2 : Return(w2, RetBool(TRUE))))

\* ProductsPage.is_on_products_page
is_on_products_page(w) ==
  Then(get_current_url(w, "ProductsPage"), LAMBDA w1 :
       IF ~Contains(w1.ret.v, DashboardMarker) THEN Return(w1, RetBool(FALSE))
       ELSE is_visible(w1, "ProductsPage", Str("search_input"), None))

\* ProductsPage.click_signout
click_signout(w) ==
  Then(click(Info(w, "ProductsPage", "Clicking sign out button"), "ProductsPage",
             Str("signout_button"), None),
       LAMBDA w1 : wait_for_load_state(w1, "ProductsPage", "networkidle", None))

(***************************************************************************)
(* steps/login_steps.py                                                    *)
(***************************************************************************)
\* what a LoginSteps object has: the attributes set in __init__ and its methods
LoginStepsAttributes ==
  {"page", "login_page", "logger", "navigate_to_login_page", "perform_login",
   "verify_login_success", "login_with_credentials"}

\* Python attribute lookup on a LoginSteps object
LoginStepsGetAttr(w, name) ==
  IF name \in LoginStepsAttributes THEN w ELSE Raise(w, "AttributeError")

\* LoginSteps.navigate_to_login_page
navigate_to_login_page(w, url) ==
  Then(navigate(log_step(w, "steps.login_steps", "Navigating to login page"),
                "LoginPage", url),
       LAMBDA w1 : Return(Info(w1, "steps.login_steps",
                               "Successfully navigated to login page"), RetNone))

\* a faulty variant of perform_login: returns without waiting for the dashboard URL
perform_login_without_wait(w, email, password) ==
  Then(login(log_step(w, "steps.login_steps", "Performing login with email"),
             email, password),
       LAMBDA w1 : Return(Info(w1, "steps.login_steps",
                               "Login workflow completed successfully"), RetNone))

\* LoginSteps.perform_login
perform_login(w, email, password) ==
  Then(login(log_step(w, "steps.login_steps", "Performing login with email"),
             email, password), LAMBDA w1 :
  Then(wait_for_login_success(w1, None),
       LAMBDA w2 : Return(Info(w2, "steps.login_steps",
                               "Login workflow completed successfully"), RetNone)))

\* is_successful = "/dashboard/dash" in current_url
IsSuccessful(current_url) == Contains(current_url, DashboardMarker)

\* LoginSteps.verify_login_success: reads self.page.url, logs one assertion
verify_login_success(w) ==
  Return(log_assertion(log_step(w, "steps.login_steps", "Verifying login success"),
                       "steps.login_steps",
                       IF IsSuccessful(w.page.url)
                       THEN "User successfully logged in and redirected to dashboard"
                       ELSE "User login failed or not redirected to dashboard",
                       IsSuccessful(w.page.url)),
         RetBool(IsSuccessful(w.page.url)))

\* a faulty variant of login_with_credentials: a failed perform_login is
\* caught and the workflow goes on to the verification
login_with_credentials_lenient(w, email, password) ==
  Return(verify_login_success(
           [perform_login(log_step(w, "steps.login_steps", "Starting login flow for user"),
                          email, password) EXCEPT !.err = None]),
         RetNone)

\* LoginSteps.login_with_credentials: the result of verify_login_success is dropped
login_with_credentials(w, email, password) ==
  Then(perform_login(log_step(w, "steps.login_steps", "Starting login flow for user"),
                     email, password),
       LAMBDA w1 : Return(verify_login_success(w1), RetNone))

(***************************************************************************)
(* steps/search_steps.py                                                   *)
(***************************************************************************)
\* SearchSteps.search_for_product
search_for_product(w, product_name) ==
  Then(search_product(log_step(w, "steps.search_steps", "Searching for product"),
                      product_name),
       LAMBDA w1 : Return(Info(w1, "steps.search_steps", "Search workflow completed for"),
                          RetNone))

\* SearchSteps.get_all_product_names
steps_get_all_product_names(w) ==
  Then(get_all_product_names(
         log_step(w, "steps.search_steps",
                  "Retrieving all product names from search results")),
       LAMBDA w1 : Return(Info(w1, "steps.search_steps", "Retrieved product names"),
                          w1.ret))

\* SearchSteps.verify_all_products_contain_keyword
verify_all_products_contain_keyword(w, keyword) ==
  Then(verify_all_products_contain(
         log_step(w, "steps.search_steps",
                  "Verifying all search results contain keyword"), keyword),
       LAMBDA w1 :
         Return(log_assertion(w1, "steps.search_steps",
                              IF w1.ret.v THEN "All products contain the keyword"
                              ELSE "Not all products contain the keyword",
                              w1.ret.v),
                RetBool(w1.ret.v)))

\* a faulty variant of verify_product_count: only a match is logged
verify_product_count_logging_matches(w, expected_count) ==
  Then(get_product_count(
         log_step(w, "steps.search_steps", "Verifying product count equals")),
       LAMBDA w1 :
         Return(IF w1.ret.v = expected_count
                THEN log_assertion(w1, "steps.search_steps",
                                   "Product count matches expected", TRUE)
                ELSE w1,
                RetBool(w1.ret.v = expected_count)))

\* SearchSteps.verify_product_count
verify_product_count(w, expected_count) ==
  Then(get_product_count(
         log_step(w, "steps.search_steps", "Verifying product count equals")),
       LAMBDA w1 :
         Return(log_assertion(w1, "steps.search_steps",
                              IF w1.ret.v = expected_count
                              THEN "Product count matches expected"
                              ELSE "Product count mismatch",
                              w1.ret.v = expected_count),
                RetBool(w1.ret.v = expected_count)))

\* a faulty variant of search_and_verify_results: the results are verified
\* before the search is made
search_and_verify_results_verifying_first(w, product_name) ==
  Then(verify_all_products_contain_keyword(
         log_step(w, "steps.search_steps", "Starting search and verify workflow for"),
         product_name),
       LAMBDA w1 :
  Then(search_for_product(w1, product_name),
       LAMBDA w2 : Return(w2, w1.ret)))

\* SearchSteps.search_and_verify_results
search_and_verify_results(w, product_name) ==
  Then(search_for_product(
         log_step(w, "steps.search_steps", "Starting search and verify workflow for"),
         product_name),
       LAMBDA w1 : verify_all_products_contain_keyword(w1, product_name))

\* SearchSteps.get_product_count
steps_get_product_count(w) ==
  Then(get_product_count(w),
       LAMBDA w1 : Return(Info(w1, "steps.search_steps", "Current product count"),
                          w1.ret))

(***************************************************************************)
(* utils/logger.py: the registry of loggers and what a logging call        *)
(* writes.  A logger name is the sequence of its dot-separated components, *)
(* so that the logging module's hierarchy (a logger's ancestors are the    *)
(* loggers named by the proper prefixes of its name) is computed.          *)
(***************************************************************************)
\* the names the code asks for (the page classes' names and the step
\* modules' __name__) and the package the step modules live in
LoggerNames ==
  { <<"LoginPage">>, <<"ProductsPage">>, <<"steps">>,
    <<"steps", "login_steps">>, <<"steps", "search_steps">> }

Sinks == {"file", "console"}

Levels == {"DEBUG", "INFO"}

\* logging.FileHandler(log_file) with setLevel(DEBUG): every logger's file
\* handler opens the same automation_<date>.log
FileHandler == [sink |-> "file", level |-> "DEBUG"]

\* logging.StreamHandler() with setLevel(INFO)
StreamHandler == [sink |-> "console", level |-> "INFO"]

\* Handler.handle: a handler emits the records at or above its level
Emits(h, level) == h.level = "DEBUG" \/ level = "INFO"

\* logging.getLogger(name): the logging module keeps one Logger object per
\* name, identified here by that name
getLogger(name) == name

\* the state of the logging facility before any get_logger call
EmptyRegistry == [n \in {} |-> n]

NoLoggers ==
  /\ loggers = EmptyRegistry
  /\ handlers = [n \in LoggerNames |-> <<>>]
  /\ written = [s \in Sinks |-> 0]

\* Logger.get_logger(name) on L = [loggers, handlers]: the registered logger
\* is returned as it is; otherwise the logger of that name gets its two
\* handlers, unless it already has handlers, and is registered
get_logger(L, name) ==
  IF name \in DOMAIN L.loggers
  THEN [loggers |-> L.loggers, handlers |-> L.handlers, ret |-> L.loggers[name]]
  ELSE LET logger == getLogger(name)
           hs == IF L.handlers[logger] = <<>>
                 THEN <<FileHandler, StreamHandler>>
                 ELSE L.handlers[logger]
       IN [loggers |-> [n \in DOMAIN L.loggers \cup {name} |->
                          IF n = name THEN logger ELSE L.loggers[n]],
           handlers |-> [L.handlers EXCEPT ![logger] = hs],
           ret |-> logger]

\* Logger.callHandlers walks from the logger up through its ancestors
\* (propagate is left at its default, True); an ancestor nobody asked for
\* is a placeholder without handlers
Lineage(logger) == {SubSeq(logger, 1, k) : k \in 1..Len(logger)}

\* the number of handlers of logger c that write a record of that level to sink s
HandlerWrites(H, c, level, s) ==
  Cardinality({i \in 1..Len(H[c]) : H[c][i].sink = s /\ Emits(H[c][i], level)})

RECURSIVE SumWrites(_, _, _, _)
SumWrites(H, cs, level, s) ==
  IF cs = {} THEN 0
  ELSE LET c == CHOOSE x \in cs : TRUE
       IN HandlerWrites(H, c, level, s) + SumWrites(H, cs \ {c}, level, s)

\* logger.debug(msg) / logger.info(msg): how often the message reaches sink s
callHandlers(H, logger, level, s) ==
  SumWrites(H, Lineage(logger) \cap DOMAIN H, level, s)

(***************************************************************************)
(* The scenarios (tests/*.py) under the setup_page fixture (conftest.py).  *)
(***************************************************************************)
AboutBlank == <<"a","b","o","u","t",":","b","l","a","n","k">>

\* the literals of the scenarios, written in the model's alphabet:
\* "iphone", "xyz123nonexistent" and the expected_results of scenario 1
Iphone == <<"a">>
Nonexistent == <<"b","b">>
ExpectedResults == 3

\* storefronts: three products of which one is an iphone; three iphones;
\* two products; none
Catalogs ==
  { << <<"b">>, <<"b","A">>, <<"a">> >>,
    << <<"A">>, <<"a","b">>, <<"b","a">> >>,
    << <<"A","a">>, <<"b">> >>,
    << >> }

Sites == [landing : {DashUrl, DashQueryUrl}, catalog : Catalogs,
          label : {"exact", "off", "absent"}, search : {"filter", "all"}]

Options == [url : {GoogleUrl, LoginUrl},
            email : {AccountEmail, "other@example.com"},
            password : {AccountPassword}]

Tests == {"test_login_with_valid_credentials_and_verify_results",
          "test_login_displays_correct_product_count",
          "test_search_iphone_products",
          "test_search_iphone_with_url_navigation",
          "test_search_empty_results"}

Faults == {NoFault} \cup [at : 1..MaxFaultAt, kind : DriverErrors]

\* the world an operation starts in: fresh trace, no pending exception
World(f) ==
  [page |-> page, trace |-> <<>>, raised |-> <<>>, log |-> log,
   err |-> None, ret |-> RetNone, fault |-> f]

Op(name, sel, arg, timeout) ==
  [name |-> name, sel |-> sel, arg |-> arg, timeout |-> timeout]

\* the state after an operation ran to w1
Commit(w1, o) ==
  /\ page' = w1.page
  /\ trace' = w1.trace
  /\ raised' = w1.raised
  /\ log' = w1.log
  /\ err' = w1.err
  /\ ret' = w1.ret
  /\ op' = o
  /\ UNCHANGED <<loggers, handlers, written>>

\* a statement of a test body: an exception ends the body and fails the test
Statement(w1, o, next) ==
  /\ Commit(w1, o)
  /\ pc' = IF Raised(w1) THEN "teardown" ELSE next
  /\ outcome' = IF Raised(w1) THEN "failed"
                ELSE IF next = "teardown" THEN "passed" ELSE outcome
  /\ UNCHANGED <<site, opts, test>>

\* `assert value, message`
AssertTrue(w, value) == IF value THEN w ELSE Raise(w, "AssertionError")

Init ==
  /\ site \in Sites
  /\ opts \in Options
  /\ test \in Tests
  /\ pc = "setup"
  /\ outcome = "running"
  /\ page = [url |-> AboutBlank, email |-> "", password |-> "", focus |-> "",
             query |-> <<>>, names |-> <<>>, label |-> None, closed |-> TRUE]
  /\ op = Op("", "", None, None)
  /\ trace = <<>>
  /\ raised = <<>>
  /\ log = <<>>
  /\ err = None
  /\ ret = RetNone
  /\ NoLoggers

\* conftest.setup_page up to the yield: context.new_page(), page.goto(--url)
setup_page(w) == DrvGoto([w EXCEPT !.page = Render(AboutBlank)], opts.url)

\* an exception in the fixture's setup is an error of the test, which never runs
Setup ==
  /\ pc = "setup"
  /\ \E f \in Faults :
       LET w1 == setup_page(World(f)) IN
       /\ Commit(w1, Op("setup_page", "", opts.url, None))
       /\ pc' = IF Raised(w1) THEN "done" ELSE "body"
       /\ outcome' = IF Raised(w1) THEN "error" ELSE outcome
  /\ UNCHANGED <<site, opts, test>>

\* conftest.setup_page after the yield: page.close()
Teardown ==
  /\ pc = "teardown"
  /\ page' = [page EXCEPT !.closed = TRUE]
  /\ pc' = "done"
  /\ UNCHANGED <<site, opts, test, outcome, op, trace, raised, log, err, ret>>
  /\ UNCHANGED <<loggers, handlers, written>>

(***************************************************************************)
(* tests/test_login.py and tests/test_product_search.py: the statements of *)
(* the test bodies.                                                        *)
(***************************************************************************)
UsesCliCredentials ==
  test \in {"test_login_with_valid_credentials_and_verify_results",
            "test_login_displays_correct_product_count"}

\* test_credentials for the login tests, the literals for the search tests
TestEmail == IF UsesCliCredentials THEN opts.email ELSE AccountEmail
TestPassword == IF UsesCliCredentials THEN opts.password ELSE AccountPassword

\* `assert login_steps.verify_login_success()`
assert_verify_login_success(w) ==
  Then(verify_login_success(w), LAMBDA w1 : AssertTrue(w1, w1.ret.v))

\* test_login.py lines 39-45: the count of displayed results is asked of
\* login_steps, then compared with 3, then the URL is checked
verify_three_results(w) ==
  Then(LoginStepsGetAttr(w, "get_displayed_results_count"), LAMBDA w1 :
  Then(AssertTrue(w1, w1.ret = RetInt(ExpectedResults)), LAMBDA w2 :
       AssertTrue(w2, Contains(w2.page.url, DashboardMarker))))

\* test_login.py lines 63-70: the displayed count and the card count are
\* both asked of login_steps, then compared
cross_check_counts(w) ==
  Then(LoginStepsGetAttr(w, "get_displayed_results_count"), LAMBDA w1 :
  Then(LoginStepsGetAttr(w1, "products_page"), LAMBDA w2 :
  Then(get_product_count(w2), LAMBDA w3 :
       AssertTrue(w3, w1.ret = w3.ret))))

\* the closing loop of test_search_iphone_products: every name is checked
\* again; product_name.lower() raises AttributeError on None
each_name_contains(w, product_names, keyword) ==
  IF \E i \in 1..Len(product_names) : product_names[i] = None
  THEN Raise(w, "AttributeError")
  ELSE AssertTrue(w, ProductsWithoutKeyword(product_names, Lower(keyword)) = <<>>)

\* test_product_search.py lines 51-66: names, at least one, all contain the
\* keyword, and each name checked again
names_contain_iphone(w) ==
  Then(steps_get_all_product_names(w), LAMBDA w1 :
  Then(AssertTrue(w1, Len(w1.ret.v) > 0), LAMBDA w2 :
  Then(verify_all_products_contain_keyword(w2, Iphone), LAMBDA w3 :
  Then(AssertTrue(w3, w3.ret.v), LAMBDA w4 :
       each_name_contains(w4, w1.ret.v, Iphone)))))

\* `assert search_steps.verify_all_products_contain_keyword("iphone")`
assert_all_contain_iphone(w) ==
  Then(verify_all_products_contain_keyword(w, Iphone),
       LAMBDA w1 : AssertTrue(w1, w1.ret.v))

\* `product_count = search_steps.get_product_count()` and its assert:
\* at least 1 after the iphone search, exactly 0 after the empty search
assert_product_count(w) ==
  Then(steps_get_product_count(w), LAMBDA w1 :
       IF test = "test_search_empty_results" THEN AssertTrue(w1, w1.ret.v = 0)
       ELSE AssertTrue(w1, w1.ret.v >= 1))

TestNavigate ==
  /\ pc = "body"
  /\ test \in {"test_search_iphone_products", "test_search_empty_results"}
  /\ \E f \in Faults :
       Statement(navigate_to_login_page(World(f), LoginUrl),
                 Op("navigate_to_login_page", "", LoginUrl, None), "login")

TestPerformLogin ==
  /\ \/ pc = "login"
     \/ pc = "body" /\ test \notin {"test_search_iphone_products", "test_search_empty_results"}
  /\ \E f \in Faults :
       Statement(perform_login(World(f), TestEmail, TestPassword),
                 Op("perform_login", "", TestEmail, None),
                 IF test = "test_login_displays_correct_product_count" THEN "crosscheck"
                 ELSE IF test = "test_search_empty_results" THEN "search"
                 ELSE "verify")

TestVerifyLogin ==
  /\ pc = "verify"
  /\ \E f \in Faults :
       Statement(assert_verify_login_success(World(f)),
                 Op("verify_login_success", "", None, None),
                 IF test = "test_login_with_valid_credentials_and_verify_results"
                 THEN "results" ELSE "search")

TestVerifyThreeResults ==
  /\ pc = "results"
  /\ \E f \in Faults :
       Statement(verify_three_results(World(f)),
                 Op("verify_three_results", "", None, None), "teardown")

TestCrossCheckCounts ==
  /\ pc = "crosscheck"
  /\ \E f \in Faults :
       Statement(cross_check_counts(World(f)),
                 Op("cross_check_counts", "", None, None), "teardown")

TestSearch ==
  /\ pc = "search"
  /\ LET term == IF test = "test_search_empty_results" THEN Nonexistent ELSE Iphone IN
     \E f \in Faults :
       Statement(search_for_product(World(f), term),
                 Op("search_for_product", "", term, None),
                 IF test = "test_search_iphone_products" THEN "names"
                 ELSE IF test = "test_search_iphone_with_url_navigation" THEN "contain"
                 ELSE "count")

TestNamesContain ==
  /\ pc = "names"
  /\ \E f \in Faults :
       Statement(names_contain_iphone(World(f)),
                 Op("names_contain_iphone", "", Iphone, None), "teardown")

TestAllContain ==
  /\ pc = "contain"
  /\ \E f \in Faults :
       Statement(assert_all_contain_iphone(World(f)),
                 Op("verify_all_products_contain_keyword", "", Iphone, None), "count")

TestProductCount ==
  /\ pc = "count"
  /\ \E f \in Faults :
       Statement(assert_product_count(World(f)),
                 Op("get_product_count", "", None, None), "teardown")

Next ==
  \/ Setup
  \/ TestNavigate
  \/ TestPerformLogin
  \/ TestVerifyLogin
  \/ TestVerifyThreeResults
  \/ TestCrossCheckCounts
  \/ TestSearch
  \/ TestNamesContain
  \/ TestAllContain
  \/ TestProductCount
  \/ Teardown

Spec == Init /\ [][Next]_vars


(***************************************************************************)
(* The operations called on their own: one call of one operation of a page *)
(* object or step object, on a page the storefront can show, with every    *)
(* input the call can be given.                                            *)
(***************************************************************************)
ApiTests == {"api_base", "api_login", "api_products", "api_steps"}

StandardSite ==
  [landing |-> DashUrl, catalog |-> << <<"b">>, <<"b","A">>, <<"a">> >>,
   label |-> "exact", search |-> "filter"]

Timeouts == {None, Some(0), Some(5000)}

ApiLocators == {Str("login_button"), Str("email_input"), Str("search_input"),
                Str("results_count"), Handle("login_button"), Handle("search_input")}

\* the operations of BasePage that declare a timeout parameter, and the rest
TimedOps == {"click", "double_click", "fill", "type_text", "clear", "select_option",
             "check", "uncheck", "hover", "get_text", "get_attribute", "is_visible",
             "is_enabled", "wait_for_selector", "wait_for_url", "wait_for_load_state"}
UntimedOps == {"navigate", "press_key", "is_checked", "get_current_url", "get_elements",
               "scroll_to_element", "assert_element_visible"}
BaseOps == TimedOps \cup UntimedOps

\* the text a caller fills into a locator's element
TextFor(locator) == IF locator.sel = "search_input" THEN Iphone ELSE AccountEmail

\* a call of a BasePage method by name; passing timeout= to a method that
\* declares no such parameter is a TypeError before the body runs
CallBase(w, name, self, locator, timeout) ==
  IF name \in UntimedOps /\ timeout # None THEN Raise(w, "TypeError")
  ELSE CASE name = "navigate" -> navigate(w, self, LoginUrl)
    [] name = "click" -> click(w, self, locator, timeout)
    [] name = "double_click" -> double_click(w, self, locator, timeout)
    [] name = "fill" -> fill(w, self, locator, TextFor(locator), timeout)
    [] name = "type_text" -> type_text(w, self, locator, TextFor(locator), timeout)
    [] name = "clear" -> clear(w, self, locator, timeout)
    [] name = "select_option" -> select_option(w, self, locator, "value", timeout)
    [] name = "check" -> check(w, self, locator, timeout)
    [] name = "uncheck" -> uncheck(w, self, locator, timeout)
    [] name = "hover" -> hover(w, self, locator, timeout)
    [] name = "press_key" -> press_key(w, self, "Enter")
    [] name = "get_text" -> get_text(w, self, locator, timeout)
    [] name = "get_attribute" -> get_attribute(w, self, locator, "class", timeout)
    [] name = "is_visible" -> is_visible(w, self, locator, timeout)
    [] name = "is_enabled" -> is_enabled(w, self, locator, timeout)
    [] name = "is_checked" -> is_checked(w, self, locator)
    [] name = "wait_for_selector" -> wait_for_selector(w, self, locator.sel, "visible", timeout)
    [] name = "wait_for_url" -> wait_for_url(w, self, DashboardMarker, timeout)
    [] name = "wait_for_load_state" -> wait_for_load_state(w, self, "load", timeout)
    [] name = "get_current_url" -> get_current_url(w, self)
    [] name = "get_elements" -> get_elements(w, self, locator.sel)
    [] name = "scroll_to_element" -> scroll_to_element(w, self, locator)
    [] name = "assert_element_visible" -> assert_element_visible(w, self, locator)

LoginOps == {"wait_for_login_success", "verify_login_success", "is_on_login_page",
             "is_on_products_page", "perform_login", "login_with_credentials"}

CallLogin(w, name, timeout) ==
  CASE name = "wait_for_login_success" -> wait_for_login_success(w, timeout)
    [] name = "verify_login_success" -> verify_login_success(w)
    [] name = "is_on_login_page" -> is_on_login_page(w)
    [] name = "is_on_products_page" -> is_on_products_page(w)
    [] name = "perform_login" -> perform_login(w, AccountEmail, AccountPassword)
    [] name = "login_with_credentials" ->
         login_with_credentials(w, AccountEmail, AccountPassword)

ProductsOps == {"verify_all_products_contain", "get_all_product_names",
                "get_product_count", "get_results_count_text"}

CallProducts(w, name, keyword) ==
  CASE name = "verify_all_products_contain" -> verify_all_products_contain(w, keyword)
    [] name = "get_all_product_names" -> get_all_product_names(w)
    [] name = "get_product_count" -> get_product_count(w)
    [] name = "get_results_count_text" -> get_results_count_text(w)

\* the operations of the dashboard a SearchSteps / ProductsPage caller strings
\* together; a caller makes up to two calls in a row on the same page
StepsOps == {"enter_search_text", "press_enter_in_search", "search_product",
             "search_for_product", "search_and_verify_results",
             "get_all_product_names", "get_product_count",
             "verify_all_products_contain_keyword", "verify_product_count"}

SearchTerms == {Iphone, Nonexistent}
Counts == {0, 2, ExpectedResults}

\* the argument a caller passes to each of them
StepsArgs(name) ==
  IF name \in {"press_enter_in_search", "get_all_product_names", "get_product_count"}
  THEN {None}
  ELSE IF name = "verify_product_count" THEN Counts
  ELSE SearchTerms

CallSteps(w, name, arg) ==
  CASE name = "enter_search_text" -> enter_search_text(w, arg)
    [] name = "press_enter_in_search" -> press_enter_in_search(w)
    [] name = "search_product" -> search_product(w, arg)
    [] name = "search_for_product" -> search_for_product(w, arg)
    [] name = "search_and_verify_results" -> search_and_verify_results(w, arg)
    [] name = "get_all_product_names" -> get_all_product_names(w)
    [] name = "get_product_count" -> get_product_count(w)
    [] name = "verify_all_products_contain_keyword" ->
         verify_all_products_contain_keyword(w, arg)
    [] name = "verify_product_count" -> verify_product_count(w, arg)

ApiInit ==
  /\ test \in ApiTests
  /\ opts = [url |-> LoginUrl, email |-> AccountEmail, password |-> AccountPassword]
  /\ IF test = "api_products"
     THEN /\ site \in {[StandardSite EXCEPT !.catalog = r] : r \in ResultSets}
          /\ page = Render(DashUrl)
     ELSE IF test = "api_steps"
     THEN /\ site \in {x \in Sites : x.landing = DashUrl}
          /\ page = Render(DashUrl)
     ELSE /\ site = StandardSite
          /\ page \in {Render(u) : u \in Urls}
  /\ pc = "ready"
  /\ outcome = "running"
  /\ op = Op("", "", None, None)
  /\ trace = <<>>
  /\ raised = <<>>
  /\ log = <<>>
  /\ err = None
  /\ ret = RetNone
  /\ NoLoggers

Called(w1, o) ==
  /\ Commit(w1, o)
  /\ pc' = "called"
  /\ UNCHANGED <<site, opts, test, outcome>>

ApiBasePage ==
  /\ test = "api_base" /\ pc = "ready"
  /\ \E name \in BaseOps, locator \in ApiLocators, timeout \in Timeouts, f \in Faults :
       Called(CallBase(World(f), name, "LoginPage", locator, timeout),
              Op(name, locator.sel, locator.kind, timeout))

ApiLoginPage ==
  /\ test = "api_login" /\ pc = "ready"
  /\ \E name \in LoginOps, timeout \in Timeouts, f \in Faults :
       Called(CallLogin(World(f), name, timeout), Op(name, "", None, timeout))

ApiProductsPage ==
  /\ test = "api_products" /\ pc = "ready"
  /\ \E name \in ProductsOps, keyword \in Keywords, f \in Faults :
       Called(CallProducts(World(f), name, keyword), Op(name, "", keyword, None))

\* a first call, and a second one after the first returned normally
ApiSteps ==
  /\ test = "api_steps" /\ pc \in {"ready", "called"} /\ err = None
  /\ \E name \in StepsOps, f \in Faults :
       \E arg \in StepsArgs(name) :
          Commit(CallSteps(World(f), name, arg), Op(name, "", arg, None))
  /\ pc' = IF pc = "ready" THEN "called" ELSE "again"
  /\ UNCHANGED <<site, opts, test, outcome>>

ApiNext == ApiBasePage \/ ApiLoginPage \/ ApiProductsPage \/ ApiSteps

SpecApi == ApiInit /\ [][ApiNext]_vars

(***************************************************************************)
(* Calls of the logging facility on their own.                             *)
(***************************************************************************)
LogInit ==
  /\ test = "logging"
  /\ site = StandardSite
  /\ opts = [url |-> LoginUrl, email |-> AccountEmail, password |-> AccountPassword]
  /\ page = Render(AboutBlank)
  /\ pc = "ready"
  /\ outcome = "running"
  /\ op = Op("", "", None, None)
  /\ trace = <<>>
  /\ raised = <<>>
  /\ log = <<>>
  /\ err = None
  /\ ret = RetNone
  /\ NoLoggers

\* a call of Logger.get_logger(name)
GetLogger ==
  /\ test = "logging"
  /\ \E name \in LoggerNames :
       LET L == get_logger([loggers |-> loggers, handlers |-> handlers], name) IN
       /\ loggers' = L.loggers
       /\ handlers' = L.handlers
       /\ ret' = [t |-> "logger", v |-> L.ret]
       /\ op' = Op("get_logger", "", name, None)
  /\ pc' = "called"
  /\ UNCHANGED <<site, opts, page, test, outcome, trace, raised, log, err, written>>

\* self.logger.debug(...) or self.logger.info(...) on a logger that
\* get_logger returned earlier
LogMessage ==
  /\ test = "logging"
  /\ \E name \in DOMAIN loggers, level \in Levels :
       /\ written' = [s \in Sinks |-> callHandlers(handlers, loggers[name], level, s)]
       /\ op' = Op(level, "", name, None)
  /\ pc' = "logged"
  /\ ret' = RetNone
  /\ UNCHANGED <<site, opts, page, test, outcome, trace, raised, log, err,
                 loggers, handlers>>

LogNext == GetLogger \/ LogMessage

SpecLog == LogInit /\ [][LogNext]_vars



(***************************************************************************)
(* Properties.                                                             *)
(***************************************************************************)
\* name contains keyword, letter case ignored, stated position by position
ContainsIgnoringCase(name, keyword) ==
  \E i \in 0..(Len(name) - Len(keyword)) :
     \A j \in 1..Len(keyword) : LowerChar(name[i + j]) = LowerChar(keyword[j])

\* the most recent operation ran without any driver failure
NoDriverFailure == raised = <<>>

\* the most recent operation met a driver failure that was not injected:
\* the page itself did not allow the call to succeed
FirstFailureIsNatural == raised # <<>> /\ ~raised[1].injected

\* C1: verify_all_products_contain(k) returns true iff the rendered result
\* set is non-empty and every product name in it contains k, ignoring case;
\* for an empty result set it returns false whatever k is.
C1_VerifyAllContain ==
  (pc = "called" /\ op.name = "verify_all_products_contain" /\ NoDriverFailure) =>
     /\ err = None
     /\ ret.t = "bool"
     /\ ret.v = (/\ page.names # <<>>
                 /\ \A i \in 1..Len(page.names) :
                      ContainsIgnoringCase(page.names[i], op.arg))
     /\ page.names = <<>> => ret.v = FALSE

C1_Witness ==
  /\ pc = "called" /\ op.name = "verify_all_products_contain" /\ NoDriverFailure
  /\ Len(page.names) = 2
  /\ op.arg = <<"A", "B">>
  /\ page.names[1] = <<"A", "b">>
  /\ ret.t = "bool" /\ ret.v = TRUE

\* C2: once perform_login has returned normally, every later statement of
\* the scenario (assertion or dashboard operation) starts with a URL that
\* contains "/dashboard/dash".
AfterLoginPcs == {"verify", "results", "crosscheck", "search", "names", "contain", "count"}

C2_DashboardAfterLogin ==
  pc \in AfterLoginPcs => Contains(page.url, DashboardMarker)

C2_Witness ==
  /\ pc = "search" /\ op.name = "perform_login" /\ err = None
  /\ test = "test_search_empty_results"

\* C3 (as amended): when the URL does not match the dashboard pattern within
\* the timeout, wait_for_login_success fails with the driver's generic
\* TimeoutError, perform_login does not return normally, the scenario fails
\* and "Login workflow completed successfully" is never logged.
LoginWaitTimedOut ==
  /\ op.name = "perform_login"
  /\ FirstFailureIsNatural
  /\ trace[raised[1].at].verb = "wait_for_url"

LoggedLoginCompleted ==
  \E i \in 1..Len(log) : log[i].msg = "Login workflow completed successfully"

C3_LoginWaitTimeout ==
  LoginWaitTimedOut =>
     /\ err = Some("TimeoutError")
     /\ outcome = "failed"
     /\ pc \in {"teardown", "done"}
     /\ ~LoggedLoginCompleted

\* C3 as claimed: the failure is the specialised LoginTimeout error.
C3_Original ==
  LoginWaitTimedOut =>
     /\ err = Some("LoginTimeout")
     /\ outcome = "failed"
     /\ ~LoggedLoginCompleted

C3_Witness ==
  /\ LoginWaitTimedOut
  /\ ~GlobMatch(page.url, DashboardMarker)
  /\ err = Some("TimeoutError")
  /\ pc = "teardown"


\* C4 (as amended): wait_for_login_success completes exactly when the URL
\* ends with "/dashboard/dash"; whenever it completes verify_login_success
\* returns true for that URL, but not the other way round: a URL that merely
\* contains the marker passes verification and still times the wait out.
\* Neither of the two reads the on-page success message.
UrlEndsWithMarker(url) ==
  /\ Len(url) >= Len(DashboardMarker)
  /\ SubSeq(url, Len(url) - Len(DashboardMarker) + 1, Len(url)) = DashboardMarker

VerifyWouldReturn(b) ==
  LET v == verify_login_success(World(NoFault)) IN
  /\ v.err = None
  /\ v.ret.t = "bool" /\ v.ret.v = b
  /\ v.trace = <<>>

WaitCalled ==
  /\ pc = "called" /\ op.name = "wait_for_login_success"
  /\ \A i \in 1..Len(raised) : ~raised[i].injected

C4_WaitStricterThanVerify ==
  WaitCalled =>
     /\ (err = None) <=> UrlEndsWithMarker(page.url)
     /\ err = None => VerifyWouldReturn(TRUE)
     /\ VerifyWouldReturn(TRUE) \/ VerifyWouldReturn(FALSE)
     /\ \A i \in 1..Len(trace) : trace[i].verb = "wait_for_url"

\* C4 as claimed: the wait completes exactly when verify_login_success would
\* return true for the same URL.
C4_Original ==
  WaitCalled => ((err = None) <=> VerifyWouldReturn(TRUE))

C4_Witness ==
  /\ WaitCalled
  /\ err = Some("TimeoutError")
  /\ page.url = DashQueryUrl
  /\ VerifyWouldReturn(TRUE)

\* C5: is_visible never raises: any failure while resolving the locator or
\* querying the page becomes the result false; so is_on_login_page, built
\* only from is_visible, never raises either.
C5_IsVisibleNeverRaises ==
  (pc = "called" /\ op.name \in {"is_visible", "is_on_login_page"}) =>
     /\ err = None
     /\ ret.t = "bool"
     /\ raised # <<>> => ret.v = FALSE

C5_Witness ==
  /\ pc = "called" /\ op.name = "is_visible"
  /\ raised # <<>> /\ raised[1].kind = "TargetClosedError" /\ raised[1].at = 2
  /\ err = None
  /\ ret.t = "bool" /\ ret.v = FALSE

\* C6 (as amended): is_visible is the only Element Action Layer operation
\* that turns a driver failure into the result false; is_enabled and every
\* other operation propagate the failure to the caller.
BaseCallFailed ==
  /\ pc = "called" /\ test = "api_base"
  /\ raised # <<>>

Swallowed == err = None /\ ret.t = "bool" /\ ret.v = FALSE

Propagated == err = Some(raised[1].kind)

C6_OnlyIsVisibleSwallows ==
  BaseCallFailed =>
     IF op.name = "is_visible" THEN Swallowed ELSE Propagated

\* C6 as claimed: is_visible and is_enabled both convert failures to false.
C6_Original ==
  BaseCallFailed =>
     IF op.name \in {"is_visible", "is_enabled"} THEN Swallowed ELSE Propagated

C6_Witness ==
  /\ BaseCallFailed
  /\ op.name = "is_enabled"
  /\ raised[1].kind = "TimeoutError"
  /\ err = Some("TimeoutError")


\* C7: with valid credentials and a storefront rendering 3 products,
\* test_login_with_valid_credentials_and_verify_results runs every step and
\* ends in the passed state.
Scenario1Conditions ==
  /\ test = "test_login_with_valid_credentials_and_verify_results"
  /\ opts.url = LoginUrl
  /\ opts.email = AccountEmail /\ opts.password = AccountPassword
  /\ site.landing = DashUrl
  /\ Len(site.catalog) = ExpectedResults
  /\ site.label = "exact"

C7_Scenario1Passes ==
  (Scenario1Conditions /\ pc = "done" /\ NoDriverFailure) => outcome = "passed"

\* C8: test_login_displays_correct_product_count obtains the number in the
\* "Showing N results" label and the number of rendered cards; it passes
\* exactly when they are equal and fails with an assertion failure exactly
\* when they differ.
CrossCheckRan ==
  /\ test = "test_login_displays_correct_product_count"
  /\ pc = "done"
  /\ op.name = "cross_check_counts"
  /\ NoDriverFailure
  /\ site.label # "absent"

C8_CountCrossCheck ==
  CrossCheckRan =>
     IF site.label = "exact"
     THEN outcome = "passed"
     ELSE outcome = "failed" /\ err = Some("AssertionError")

\* C9 (as amended): the operations of the Element Action Layer that take a
\* timeout make their driver call with the supplied value when it is not 0,
\* and with the default 30000 ms when none or 0 is supplied; navigate,
\* press_key, is_checked, get_current_url, get_elements, scroll_to_element
\* and assert_element_visible take no timeout: given one they fail with a
\* TypeError before any driver call, and their driver calls carry none.
BaseCalled == pc = "called" /\ test = "api_base"

TimeoutGiven == op.timeout # None

EffectiveTimeout ==
  IF op.timeout = None THEN DefaultTimeout
  ELSE IF op.timeout[1] = 0 THEN DefaultTimeout
  ELSE op.timeout[1]

DriverCallsCarry(t) ==
  \A i \in 1..Len(trace) : trace[i].verb # "locator" => trace[i].timeout = t

C9_TimeoutOverride ==
  BaseCalled =>
     IF op.name \in TimedOps
     THEN err # Some("TypeError") /\ DriverCallsCarry(Some(EffectiveTimeout))
     ELSE IF TimeoutGiven
     THEN err = Some("TypeError") /\ trace = <<>>
     ELSE DriverCallsCarry(None)

\* C9 as claimed: every operation accepts a timeout, passes a supplied value
\* (0 included) unchanged and uses 30000 ms when none is supplied.
C9_Original ==
  BaseCalled =>
     /\ err # Some("TypeError")
     /\ DriverCallsCarry(IF TimeoutGiven THEN op.timeout ELSE Some(DefaultTimeout))

C9_Witness ==
  /\ BaseCalled
  /\ op.name = "click" /\ op.timeout = Some(0)
  /\ err = None
  /\ Len(trace) = 2
  /\ trace[2].verb = "click" /\ trace[2].timeout = Some(DefaultTimeout)

\* C10: a failure raised by a driver call inside an operation of a scenario
\* reaches the scenario unchanged: it is the only failure, the failed call
\* is the last browser action of the operation, and the scenario ends there
\* with that failure.
C10_FailurePropagates ==
  raised # <<>> =>
     /\ Len(raised) = 1
     /\ raised[1].at = Len(trace)
     /\ err = Some(raised[1].kind)
     /\ outcome \in {"failed", "error"}
     /\ pc \in {"teardown", "done"}

C10_Witness ==
  /\ op.name = "perform_login"
  /\ raised # <<>> /\ raised[1].at = 2
  /\ trace[2].verb = "fill"
  /\ Len(trace) = 2
  /\ err = Some("TimeoutError")
  /\ outcome = "failed"


\* an "ASSERTION [FAILED]" line is in the log
FailedAssertionLogged ==
  \E i \in 1..Len(log) : log[i].kind = "assertion" /\ log[i].status = "FAILED"

\* the scenario's last statement was the assert on a verification step that
\* returned false
VerificationMismatch ==
  /\ err = Some("AssertionError")
  /\ \/ op.name \in {"verify_login_success", "verify_all_products_contain_keyword"}
     \/ op.name = "names_contain_iphone" /\ page.names # <<>>

\* C11 (as amended): a failing scenario terminates immediately with the
\* causing exception; an "ASSERTION [FAILED]" line is logged exactly when
\* the failure is the assert on a verification step (verify_login_success,
\* verify_all_products_contain_keyword) that returned false.  A driver
\* failure such as a login wait timeout or an element action timeout, a
\* plain assert on a count and an AttributeError leave no such line.
C11_FailedLineOnlyForMismatch ==
  /\ outcome = "failed" => pc \in {"teardown", "done"}
  /\ FailedAssertionLogged <=> (outcome = "failed" /\ VerificationMismatch)

\* C11 as claimed: every failing scenario has logged an "ASSERTION [FAILED]"
\* line, whatever the kind of failure.
C11_Original ==
  outcome = "failed" => (pc \in {"teardown", "done"} /\ FailedAssertionLogged)

C11_Witness ==
  /\ outcome = "failed"
  /\ op.name = "verify_all_products_contain_keyword"
  /\ err = Some("AssertionError")
  /\ log[Len(log)].kind = "assertion" /\ log[Len(log)].status = "FAILED"
  /\ log[Len(log)].lvl = "ERROR"


\* a STEP line with the given description is in the log
StepLogged(msg) ==
  \E i \in 1..Len(log) : log[i].kind = "step" /\ log[i].msg = msg

AssertionLogged == \E i \in 1..Len(log) : log[i].kind = "assertion"

\* search_for_product ran to its end
SearchCompleted ==
  \E i \in 1..Len(log) : log[i].msg = "Search workflow completed for"

FlowState ==
  IF outcome \in {"failed", "error"} THEN "Failed"
  ELSE IF page.closed \/ PageKind(page.url) = "other" THEN "NotLoaded"
  ELSE IF PageKind(page.url) = "dashboard" THEN "OnDashboard"
  ELSE "OnLoginForm"

\* the i-th driver call of an operation filled the email or password field
FillCarriedOut(tr, rs, i) ==
  /\ tr[i].verb = "fill"
  /\ tr[i].sel \in {"email_input", "password_input"}
  /\ \A j \in 1..Len(rs) : rs[j].at # i

\* the form was submitted before the i-th driver call (Authenticating or later)
SubmittedBefore(tr, i) ==
  \E j \in 1..(i - 1) : tr[j].verb \in {"click", "wait_for_load_state", "wait_for_url"}

StepsCall(name) == test = "api_steps" /\ pc' # pc /\ op'.name = name

\* C14: get_all_product_names leaves the page as it found it, and a second
\* call right after a first one returns the same names in the same order.
C14_ProductNamesIdempotent ==
  [][StepsCall("get_all_product_names") =>
       /\ page' = page
       /\ (pc = "called" /\ op.name = "get_all_product_names" /\ err' = None) =>
             ret' = ret]_vars

C14_Witness ==
  /\ test = "api_steps" /\ pc = "again"
  /\ op.name = "get_all_product_names" /\ err = None
  /\ ret.t = "list" /\ Len(ret.v) = 3
  /\ ret.v[1] = Some(<<"b">>) /\ ret.v[3] = Some(<<"a">>)
  /\ Len(log) = 6
  /\ log[1].msg = "Retrieving all product names"
  /\ log[4].msg = "Retrieving all product names"


LabelNotRead == \A i \in 1..Len(trace) : trace[i].sel # "results_count"

\* C16: get_product_count returns the number of rendered product cards and
\* never reads the "Showing N results" label, whatever the label shows;
\* verify_product_count(n) returns true iff that number equals n.
C16_CountFromCards ==
  (test = "api_steps" /\ pc \in {"called", "again"} /\ err = None) =>
     /\ op.name = "get_product_count" =>
          /\ ret.t = "int" /\ ret.v = Len(page.names)
          /\ LabelNotRead
     /\ op.name = "verify_product_count" =>
          /\ ret.t = "bool" /\ ret.v = (Len(page.names) = op.arg)
          /\ LabelNotRead

C16_Witness ==
  /\ test = "api_steps" /\ pc = "called" /\ err = None
  /\ op.name = "get_product_count"
  /\ site.label = "off"
  /\ page.label = Some(Len(page.names) + 1)
  /\ ret.t = "int" /\ ret.v = ExpectedResults


\* the scenarios that call perform_login without navigate_to_login_page
StartsWithLogin ==
  test \in {"test_login_with_valid_credentials_and_verify_results",
            "test_login_displays_correct_product_count",
            "test_search_iphone_with_url_navigation"}

\* the body of a scenario starts on a page just created and navigated to --url
FreshPageAtStart == pc = "body" => page = Render(opts.url)

\* the page is closed once a scenario that ran has ended
ClosedAtEnd == (pc = "done" /\ outcome \in {"passed", "failed"}) => page.closed

\* C17: each scenario starts on its own freshly created page, navigated to
\* the URL of the process options, so that the page is already on the login
\* form when perform_login begins without a prior navigate_to_login_page;
\* the page is closed after the scenario, passed or failed.
C17_PageAtLoginFormAtStart ==
  /\ FreshPageAtStart
  /\ (pc = "body" /\ StartsWithLogin) => PageKind(page.url) = "login"
  /\ ClosedAtEnd


\* the driver calls an operation made are the first calls of the given order
InOrder(order) ==
  /\ Len(trace) <= Len(order)
  /\ \A i \in 1..Len(trace) : trace[i].verb = order[i].verb /\ trace[i].sel = order[i].sel

\* the operation stopped at its first failure
StoppedAtFailure ==
  raised # <<>> => (Len(raised) = 1 /\ raised[1].at = Len(trace) /\ err = Some(raised[1].kind))

Step(verb, sel) == [verb |-> verb, sel |-> sel]

SearchOrder ==
  << Step("locator", "search_input"), Step("click", "search_input"),
     Step("locator", "search_input"), Step("fill", "search_input"),
     Step("press", ""), Step("wait_for_load_state", "") >>

SearchCompletionLogged ==
  \E i \in 1..Len(log) : log[i].msg = "Search completed for"

\* C18: search_product(term) focuses the search box, fills it with term,
\* presses Enter and waits for network idle, in this order; it returns and
\* logs the search as completed only after that wait has finished, and a
\* failing step is the last one performed.
C18_SearchOrder ==
  (test = "api_steps" /\ pc = "called" /\ op.name \in {"search_product", "search_for_product"}) =>
     /\ InOrder(SearchOrder)
     /\ StoppedAtFailure
     /\ Len(trace) >= 4 => trace[4].arg = op.arg
     /\ Len(trace) >= 5 => trace[5].arg = "Enter"
     /\ Len(trace) >= 6 => trace[6].arg = "networkidle"
     /\ (err = None) <=> (Len(trace) = Len(SearchOrder) /\ raised = <<>>)
     /\ SearchCompletionLogged <=> (err = None)

C18_Witness ==
  /\ test = "api_steps" /\ pc = "called" /\ op.name = "search_product"
  /\ err = None
  /\ Len(trace) = 6 /\ trace[6].verb = "wait_for_load_state"
  /\ op.arg = Nonexistent /\ page.query = Nonexistent /\ page.names = <<>>
  /\ log[Len(log)].msg = "Search completed for"

LoginOrder ==
  << Step("locator", "email_input"), Step("fill", "email_input"),
     Step("locator", "password_input"), Step("fill", "password_input"),
     Step("locator", "login_button"), Step("click", "login_button"),
     Step("wait_for_load_state", ""), Step("wait_for_url", "") >>

\* C19: perform_login fills the email, fills the password, clicks the login
\* button, waits for the network-idle load state and then waits for the
\* dashboard URL, always in this order: no click before both fills, no
\* dashboard wait before the load-state wait has finished.
C19_LoginOrder ==
  op.name = "perform_login" =>
     /\ InOrder(LoginOrder)
     /\ StoppedAtFailure
     /\ Len(trace) >= 2 => trace[2].arg = TestEmail
     /\ Len(trace) >= 4 => trace[4].arg = TestPassword
     /\ Len(trace) >= 7 => trace[7].arg = "networkidle"
     /\ Len(trace) >= 8 => trace[8].arg = DashboardMarker
     /\ (err = None) <=> (Len(trace) = Len(LoginOrder) /\ raised = <<>>)

C19_Witness ==
  /\ op.name = "perform_login" /\ err = None
  /\ Len(trace) = 8
  /\ trace[6].verb = "click" /\ trace[7].verb = "wait_for_load_state"
  /\ trace[8].verb = "wait_for_url"
  /\ Contains(page.url, DashboardMarker)


VerificationSteps ==
  {"verify_login_success", "verify_all_products_contain_keyword", "verify_product_count"}

AssertionRecords(l) == SelectSeq(l, LAMBDA r : r.kind = "assertion")

\* what a verification step has to answer on a page, from the page alone
Verdict(name, arg, p) ==
  IF name = "verify_login_success" THEN Contains(p.url, DashboardMarker)
  ELSE IF name = "verify_product_count" THEN Len(p.names) = arg
  ELSE /\ p.names # <<>>
       /\ \A i \in 1..Len(p.names) : ContainsIgnoringCase(p.names[i], arg)

\* C20: a call of a verification step that returns adds exactly one
\* assertion record to the log, the last record of the call: PASSED at INFO
\* level iff the value returned is true, FAILED at ERROR level iff it is
\* false; the value is a function of the page at the time of the call alone
\* (also for a second call in a row), and the call leaves the page unchanged.
C20_OneAssertionPerVerification ==
  [][(pc' # pc /\ op'.name \in VerificationSteps /\ err' = None) =>
       /\ Len(AssertionRecords(log')) = Len(AssertionRecords(log)) + 1
       /\ log'[Len(log')].kind = "assertion"
       /\ ret'.t = "bool"
       /\ log'[Len(log')].status = (IF ret'.v THEN "PASSED" ELSE "FAILED")
       /\ log'[Len(log')].lvl = (IF ret'.v THEN "INFO" ELSE "ERROR")
       /\ ret'.v = Verdict(op'.name, op'.arg, page)
       /\ page' = page]_vars

C20_Witness ==
  /\ test = "api_steps" /\ pc = "again" /\ err = None
  /\ op.name = "verify_product_count"
  /\ ret.t = "bool" /\ ret.v = FALSE
  /\ Len(AssertionRecords(log)) = 2
  /\ log[Len(log)].status = "FAILED" /\ log[Len(log)].lvl = "ERROR"


\* the workflow searched for its term and the search ran to its end
SearchedFor(term) ==
  /\ page.query = term
  /\ \E i \in 1..Len(trace) : trace[i].verb = "fill" /\ trace[i].arg = term
  /\ \E i \in 1..Len(trace) : trace[i].verb = "wait_for_load_state"

\* C21: search_and_verify_results(term) returns true iff the search
\* completes and the result set rendered afterwards is non-empty with every
\* name containing term, ignoring case; for a term that yields no products
\* it returns false and get_product_count returns 0.
C21_SearchAndVerify ==
  (test = "api_steps" /\ pc \in {"called", "again"}
     /\ op.name = "search_and_verify_results") =>
     /\ err = None => (ret.t = "bool" /\ SearchedFor(op.arg))
     /\ (ret.t = "bool" /\ ret.v = TRUE) <=>
           /\ err = None
           /\ page.names # <<>>
           /\ \A i \in 1..Len(page.names) : ContainsIgnoringCase(page.names[i], op.arg)
     /\ (err = None /\ page.names = <<>>) =>
           LET c == get_product_count(World(NoFault)) IN
           /\ ret.v = FALSE
           /\ c.err = None /\ c.ret.t = "int" /\ c.ret.v = 0

C21_Witness ==
  /\ test = "api_steps" /\ pc = "called" /\ err = None
  /\ op.name = "search_and_verify_results" /\ op.arg = Nonexistent
  /\ site.catalog # <<>>
  /\ page.names = <<>>
  /\ ret.t = "bool" /\ ret.v = FALSE


ReadOnlyOps ==
  {"verify_login_success", "get_all_product_names", "get_product_count",
   "verify_all_products_contain", "verify_product_count", "get_results_count_text",
   "is_on_login_page", "is_on_products_page"}

\* the driver calls that act on the page: clicks, fills, key presses, navigation
ActingVerbs ==
  {"goto", "click", "dblclick", "fill", "type", "clear", "select_option", "check",
   "uncheck", "hover", "press"}

\* C22: a read-only operation issues no click, fill, key press or
\* navigation, and the page (URL, login-flow state, rendered result set and
\* everything else) is the same after the call as before it, whether the
\* call returns or fails.
C22_ReadOnlyOpsLeavePage ==
  [][(pc' # pc /\ op'.name \in ReadOnlyOps) =>
       /\ \A i \in 1..Len(trace') : trace'[i].verb \notin ActingVerbs
       /\ page'.url = page.url
       /\ page'.names = page.names
       /\ FlowState' = FlowState
       /\ page' = page]_vars

C22_Witness ==
  /\ test = "api_login" /\ pc = "called"
  /\ op.name = "is_on_products_page" /\ err = None
  /\ ret.t = "bool" /\ ret.v = TRUE
  /\ Len(trace) = 2 /\ trace[2].verb = "is_visible"
  /\ page.focus = ""


\* the registry maps every registered name to the logging module's one
\* logger of that name, and get_logger returned that instance
OneInstancePerName ==
  /\ \A n \in DOMAIN loggers : loggers[n] = getLogger(n)
  /\ op.name = "get_logger" =>
       (ret.t = "logger" /\ op.arg \in DOMAIN loggers /\ ret.v = loggers[op.arg])

\* a get_logger call with a name that is already registered returns the
\* registered instance and changes neither the registry nor the handlers
RepeatedCallIsIdentity ==
  (op'.name = "get_logger" /\ op'.arg \in DOMAIN loggers) =>
     /\ ret'.v = loggers[op'.arg]
     /\ loggers' = loggers
     /\ handlers' = handlers

\* every registered logger carries at most one handler per sink
OneHandlerPerSink ==
  \A n \in DOMAIN loggers : \A s \in Sinks :
     Cardinality({i \in 1..Len(handlers[loggers[n]]) :
                    handlers[loggers[n]][i].sink = s}) <= 1

\* the most recent message reached no sink more than once
WrittenAtMostOnce == \A s \in Sinks : written[s] <= 1

\* C23: after any sequence of get_logger calls each name maps to exactly one
\* logger instance (a repeated call with the same name returns the identical
\* instance and leaves the registry unchanged), each registered logger
\* carries at most one file handler and one console handler, and so a
\* message is never written twice to the same sink.
C23_LoggerRegistry ==
  [][test = "logging" =>
       /\ RepeatedCallIsIdentity
       /\ OneInstancePerName'
       /\ OneHandlerPerSink'
       /\ WrittenAtMostOnce']_vars

====
